---- MODULE Spec2Model ----
(***************************************************************************)
(* Model of playtime/formula.py: the PlaytimePipeline operator algebra     *)
(* (+, *, |) and the CrossPolyPipeline fit/transform pair.                 *)
(*                                                                         *)
(* Estimator objects live in a heap (a sequence, the index is the object's *)
(* identity), so that sharing and cloning are visible.  A feature matrix   *)
(* is modelled by its sequence of columns; a column is a symbolic term:    *)
(*   <<"col", obj, j>>   column j of the output of the opaque object obj   *)
(*   <<"mul", c1, c2>>   the element-wise product of columns c1 and c2     *)
(* Every opaque transformer yields a fixed number (at least one) of        *)
(* columns once fitted.                                                    *)
(*                                                                         *)
(* heap    the estimator objects                                           *)
(* nodes   the objects a PlaytimePipeline wraps (its .pipeline)            *)
(* made    the compositions evaluated so far: operator, operands, result   *)
(* result  what the last transform or fit_transform call returned          *)
(*                                                                         *)
(* The operators are explored as a user writes a formula: each + or *      *)
(* joins the formula so far with the next constructed pipeline, | pipes it *)
(* into an estimator.  fit and transform may be called on any node at any  *)
(* point in between.                                                       *)
(***************************************************************************)
EXTENDS Integers, Sequences, FiniteSets

VARIABLES heap, nodes, made, result

vars == <<heap, nodes, made, result>>

\* ---------------------------------------------------------------- bounds
\* The named feature pipelines the user starts from, the estimators at hand
\* for |, the compositions (+, *, |) evaluated, the columns of one pipeline.
MaxLeaves == 3
MaxEstimators == 1
MaxComposed == 2
MaxWidth == 2

Widths == 1..MaxWidth

\* ------------------------------------------------------- estimator objects
\* An estimator object.  cls is its Python class; steps are the objects it
\* holds (members of a FeatureUnion, steps of a Pipeline built by |, the
\* union_estimator of a CrossPolyPipeline); names are the FeatureUnion's
\* member names; fitted says that the object's fitted attributes exist.
NewObj(cls, width, steps, names) ==
    [cls |-> cls, width |-> width, steps |-> steps, names |-> names,
     fitted |-> FALSE, split_marks_ |-> <<>>, shape_out_ |-> 0]

\* sklearn.base.clone: same parameters, no fitted attributes.
Unfitted(o) ==
    [o EXCEPT !.fitted = FALSE, !.split_marks_ = <<>>, !.shape_out_ = 0]

RECURSIVE clone(_, _)
RECURSIVE cloneSeq(_, _)
\* clone(estimator): a deep copy of the parameters (nested estimators are
\* cloned too); returns the extended heap and the identity of the copy.
clone(h, id) ==
    LET o == h[id] IN
    IF o.steps = <<>>
    THEN [heap |-> Append(h, Unfitted(o)), id |-> Len(h) + 1]
    ELSE LET r == cloneSeq(h, o.steps) IN
         [heap |-> Append(r.heap, [Unfitted(o) EXCEPT !.steps = r.ids]),
          id |-> Len(r.heap) + 1]

cloneSeq(h, ids) ==
    IF ids = <<>>
    THEN [heap |-> h, ids |-> <<>>]
    ELSE LET r1 == clone(h, Head(ids))
             r2 == cloneSeq(r1.heap, Tail(ids))
         IN [heap |-> r2.heap, ids |-> <<r1.id>> \o r2.ids]

\* type(estimator).__name__.lower()
LowerName(cls) ==
    CASE cls = "Pipeline" -> "pipeline"
      [] cls = "FeatureUnion" -> "featureunion"
      [] cls = "CrossPolyPipeline" -> "crosspolypipeline"
      [] OTHER -> "estimator"

\* How many of the first i entries of lower carry the name lower[i].
RankOf(lower, i) == Cardinality({j \in 1..i : lower[j] = lower[i]})

CountOf(lower, i) == Cardinality({j \in 1..Len(lower) : lower[j] = lower[i]})

\* make_union names its members after their class, numbering the members
\* of a class that occurs more than once: <<"pipeline", 2>> is "pipeline-2",
\* <<"featureunion", 0>> is "featureunion".
NameEstimators(h, ids) ==
    LET lower == [i \in 1..Len(ids) |-> LowerName(h[ids[i]].cls)] IN
    [i \in 1..Len(ids) |->
        IF CountOf(lower, i) = 1 THEN <<lower[i], 0>>
        ELSE <<lower[i], RankOf(lower, i)>>]

\* make_union(*transformers): a new FeatureUnion over the given objects
\* themselves (no copy is taken).
make_union(h, ids) ==
    [heap |-> Append(h, NewObj("FeatureUnion", 0, ids, NameEstimators(h, ids))),
     id |-> Len(h) + 1]

\* ------------------------------------------------- CrossPolyPipeline.transform
Err == [ok |-> FALSE, cols |-> <<>>]

Matrix(cols) == [ok |-> TRUE, cols |-> cols]

\* The output columns of a fitted opaque transformer.
OwnColumns(id, w) == [j \in 1..w |-> <<"col", id, j - 1>>]

\* self.split_marks_[name] = slice(start, stop): a dict in insertion order.
DictSet(marks, name, start, stop) ==
    IF \E i \in 1..Len(marks) : marks[i].name = name
    THEN [i \in 1..Len(marks) |->
            IF marks[i].name = name
            THEN [name |-> name, start |-> start, stop |-> stop]
            ELSE marks[i]]
    ELSE Append(marks, [name |-> name, start |-> start, stop |-> stop])

Keys(marks) == [i \in 1..Len(marks) |-> marks[i].name]

DictGet(marks, name) ==
    marks[CHOOSE i \in 1..Len(marks) : marks[i].name = name]

\* X_tfm[:, slice(start, stop)]
SliceCols(X_tfm, mark) == SubSeq(X_tfm, mark.start + 1, mark.stop)

RECURSIVE combinations(_)
\* itertools.combinations(keys, 2), in its enumeration order.
combinations(keys) ==
    IF Len(keys) < 2 THEN <<>>
    ELSE [j \in 1..(Len(keys) - 1) |-> <<keys[1], keys[j + 1]>>]
         \o combinations(Tail(keys))

\* X1 * X2[:, [x]]: every column of X1 times the one column c.
Batch(X1, c) == [i \in 1..Len(X1) |-> <<"mul", X1[i], c>>]

\* One batch per column of X1: that column times all of X2.
BatchesByFirstBlock(columns, X1, X2, x) ==
    columns \o [k \in 1..(Len(X1) * Len(X2)) |->
                  <<"mul", X1[((k - 1) \div Len(X2)) + 1],
                           X2[((k - 1) % Len(X2)) + 1]>>]

RECURSIVE AppendBatches(_, _, _, _)
\* for x in range(X2.shape[1]): columns.append(X1 * X2[:, [x]])
AppendBatches(columns, X1, X2, x) ==
    IF x > Len(X2) THEN columns
    ELSE AppendBatches(columns \o Batch(X1, X2[x]), X1, X2, x + 1)

\* The two blocks a pair of names selects.
PairBlocks(X_tfm, marks, pair) ==
    [X1 |-> SliceCols(X_tfm, DictGet(marks, pair[1])),
     X2 |-> SliceCols(X_tfm, DictGet(marks, pair[2]))]

RECURSIVE AllPairsColumns(_, _, _, _)
\* The loop over x nested in the loop over the pairs.
AllPairsColumns(columns, X_tfm, marks, pairs) ==
    IF pairs = <<>> THEN columns
    ELSE LET b == PairBlocks(X_tfm, marks, Head(pairs)) IN
         AllPairsColumns(AppendBatches(columns, b.X1, b.X2, 1),
                         X_tfm, marks, Tail(pairs))

CrossColumnsNested(X_tfm, marks) ==
    LET pairs == combinations(Keys(marks)) IN
    IF pairs = <<>> THEN Err
    ELSE Matrix(AllPairsColumns(<<>>, X_tfm, marks, pairs))

\* Lines 42-51: the loop over the pairs only binds X1 and X2, so after it
\* they are the blocks of the last pair; the loop over x runs once, after
\* it.  With no pair X2 is unbound, and hstack of no batch raises.
CrossColumns(X_tfm, marks) ==
    LET pairs == combinations(Keys(marks)) IN
    IF pairs = <<>> THEN Err
    ELSE LET b == PairBlocks(X_tfm, marks, pairs[Len(pairs)]) IN
         IF b.X2 = <<>> THEN Err
         ELSE Matrix(AppendBatches(<<>>, b.X1, b.X2, 1))

\* hasattr(self, "split_marks_"): transform reads the fitted attributes.
HasSplitMarks(o) == o.fitted

RECURSIVE transform(_, _)
RECURSIVE transformSeq(_, _)

\* ------------------------------------------------------ CrossPolyPipeline.fit
NextStartNoCarry(start, width) == width

\* start = width + start
NextStart(start, width) == width + start

RECURSIVE FitMarks(_, _, _, _, _)
\* The loop of fit over union_estimator.transformer_list; the width of a
\* transformer is the column count of its transform of the 2-row probe.
FitMarks(h, names, tfms, start, marks) ==
    IF tfms = <<>> THEN [split_marks_ |-> marks, shape_out_ |-> start]
    ELSE LET width == Len(transform(h, Head(tfms)).cols) IN
         FitMarks(h, Tail(names), Tail(tfms), NextStart(start, width),
                  DictSet(marks, Head(names), start, start + width))

\* ------------------------------------------------------------------ transform
\* A transform that works out missing split marks by itself.
transformWithoutFit(h, id) ==
    LET o == h[id] IN
    CASE o.cls = "FeatureUnion" -> transformSeq(h, o.steps)
      [] o.cls = "CrossPolyPipeline" ->
            LET X_tfm == transform(h, o.steps[1])
                u == h[o.steps[1]]
            IN IF ~X_tfm.ok THEN Err
               ELSE CrossColumns(X_tfm.cols,
                        FitMarks(h, u.names, u.steps, 0, <<>>).split_marks_)
      [] o.cls = "Pipeline" /\ o.steps # <<>> ->
            LET Xt == transform(h, o.steps[1])
                last == o.steps[Len(o.steps)]
            IN IF Xt.ok /\ h[last].fitted
               THEN Matrix(OwnColumns(last, h[last].width))
               ELSE Err
      [] OTHER -> IF o.fitted THEN Matrix(OwnColumns(id, o.width)) ELSE Err

\* estimator.transform(X), by the class of the estimator.  A Pipeline built
\* by | returns what its last step makes of the first step's output.
transform(h, id) ==
    LET o == h[id] IN
    CASE o.cls = "FeatureUnion" -> transformSeq(h, o.steps)
      [] o.cls = "CrossPolyPipeline" ->
            LET X_tfm == transform(h, o.steps[1]) IN
            IF ~X_tfm.ok \/ ~HasSplitMarks(o) THEN Err
            ELSE CrossColumns(X_tfm.cols, o.split_marks_)
      [] o.cls = "Pipeline" /\ o.steps # <<>> ->
            LET Xt == transform(h, o.steps[1])
                last == o.steps[Len(o.steps)]
            IN IF Xt.ok /\ h[last].fitted
               THEN Matrix(OwnColumns(last, h[last].width))
               ELSE Err
      [] OTHER -> IF o.fitted THEN Matrix(OwnColumns(id, o.width)) ELSE Err

\* FeatureUnion.transform: the members' outputs side by side.
transformSeq(h, ids) ==
    IF ids = <<>> THEN Matrix(<<>>)
    ELSE LET r1 == transform(h, Head(ids))
             r2 == transformSeq(h, Tail(ids))
         IN IF r1.ok /\ r2.ok THEN Matrix(r1.cols \o r2.cols) ELSE Err

RECURSIVE fit(_, _)
RECURSIVE fitSeq(_, _)
\* estimator.fit(X), by the class of the estimator; fitting is in place.
fit(h, id) ==
    LET o == h[id] IN
    CASE o.cls = "FeatureUnion" -> fitSeq(h, o.steps)
      [] o.cls = "CrossPolyPipeline" ->
            LET h1 == fit(h, o.steps[1])
                u == h1[o.steps[1]]
                m == FitMarks(h1, u.names, u.steps, 0, <<>>)
            IN [h1 EXCEPT ![id].fitted = TRUE,
                          ![id].split_marks_ = m.split_marks_,
                          ![id].shape_out_ = m.shape_out_]
      [] o.cls = "Pipeline" /\ o.steps # <<>> -> fitSeq(h, o.steps)
      [] OTHER -> [h EXCEPT ![id].fitted = TRUE]

fitSeq(h, ids) ==
    IF ids = <<>> THEN h ELSE fitSeq(fit(h, Head(ids)), Tail(ids))

\* ------------------------------------------------------------ PlaytimePipeline
\* isinstance(x, CrossPolyPipeline) for a PlaytimePipeline x: the wrapper
\* class is not a subclass of CrossPolyPipeline, whatever it wraps.
IsCrossPolyInstance(h, id) == FALSE

\* An __add__ that never flattens its left operand.
addNested(h, a, b) ==
    LET c == clone(h, b) IN make_union(c.heap, <<a, c.id>>)

\* __add__ on the wrapped objects a and b.
add(h, a, b) ==
    IF h[a].cls = "FeatureUnion"
    THEN LET c == clone(h, b) IN make_union(c.heap, h[a].steps \o <<c.id>>)
    ELSE make_union(h, <<a, b>>)

\* CrossPolyPipeline(union_estimator)
NewCross(h, u) ==
    [heap |-> Append(h, NewObj("CrossPolyPipeline", 0, <<u>>, <<>>)),
     id |-> Len(h) + 1]

\* __mul__ on the wrapped objects a and b; id 0 stands for a raised error:
\* the two elif branches hand CrossPolyPipeline a list, which has no
\* transformer_list.
mul(h, a, b) ==
    IF ~IsCrossPolyInstance(h, a) /\ ~IsCrossPolyInstance(h, b)
    THEN LET u == add(h, a, b) IN NewCross(u.heap, u.id)
    ELSE [heap |-> h, id |-> 0]

\* An __or__ that chains the left operand itself.
orShared(h, a, e) ==
    [heap |-> Append(h, NewObj("Pipeline", 0, <<a, e>>, <<>>)),
     id |-> Len(h) + 1]

\* make_pipeline(clone(self.pipeline), other)
or(h, a, e) ==
    LET c == clone(h, a) IN
    [heap |-> Append(c.heap, NewObj("Pipeline", 0, <<c.id, e>>, <<>>)),
     id |-> Len(c.heap) + 1]

NoResult == [node |-> 0, ok |-> FALSE, cols |-> <<>>]

Call(r, n) == [node |-> n, ok |-> r.ok, cols |-> r.cols]

Composed(op, a, b, out) == [op |-> op, left |-> a, right |-> b, out |-> out]

\* seasonal, feats, onehot, bag_of_words: each returns a PlaytimePipeline
\* around a fresh pipeline of delegated transformers, which yields ws[i]
\* columns once fitted.
Constructors(ws) == [i \in 1..Len(ws) |-> NewObj("Pipeline", ws[i], <<>>, <<>>)]

WidthSeqs == UNION {[1..k -> Widths] : k \in 1..MaxLeaves}

\* The user's starting point: the constructed feature pipelines, objects
\* 1..Len(ws), and, for the right-hand side of |, the estimators of the
\* delegated framework (one output column each).
InitWith(ests) ==
    /\ \E ws \in WidthSeqs, e \in ests :
         /\ heap = Constructors(ws)
                   \o [i \in 1..e |-> NewObj("Estimator", 1, <<>>, <<>>)]
         /\ nodes = 1..Len(ws)
    /\ made = {}
    /\ result = NoResult

Init == InitWith({MaxEstimators})

InitTransform == InitWith({0})

\* PlaytimePipeline.__add__
Add(a, b) ==
    LET r == add(heap, a, b) IN
    /\ Cardinality(made) < MaxComposed
    /\ heap' = r.heap
    /\ nodes' = nodes \cup {r.id}
    /\ made' = made \cup {Composed("add", a, b, r.id)}
    /\ UNCHANGED result

\* PlaytimePipeline.__mul__
Mul(a, b) ==
    LET r == mul(heap, a, b) IN
    /\ Cardinality(made) < MaxComposed
    /\ r.id # 0
    /\ heap' = r.heap
    /\ nodes' = nodes \cup {r.id}
    /\ made' = made \cup {Composed("mul", a, b, r.id)}
    /\ UNCHANGED result

\* PlaytimePipeline.__or__
Or(a, e) ==
    LET r == or(heap, a, e) IN
    /\ Cardinality(made) < MaxComposed
    /\ heap' = r.heap
    /\ nodes' = nodes \cup {r.id}
    /\ made' = made \cup {Composed("or", a, e, r.id)}
    /\ UNCHANGED result

\* PlaytimePipeline.fit
Fit(n) ==
    /\ heap' = fit(heap, n)
    /\ UNCHANGED <<nodes, made, result>>

\* A transform that drops the fitted attributes it has read.
TransformForgets(n) ==
    /\ result' = Call(transform(heap, n), n)
    /\ heap' = [heap EXCEPT ![n] = Unfitted(@)]
    /\ UNCHANGED <<nodes, made>>

\* PlaytimePipeline.transform
Transform(n) ==
    /\ result' = Call(transform(heap, n), n)
    /\ UNCHANGED <<heap, nodes, made>>

\* PlaytimePipeline.fit_transform: the wrapped object fits, then transforms.
FitTransform(n) ==
    /\ heap' = fit(heap, n)
    /\ result' = Call(transform(heap', n), n)
    /\ UNCHANGED <<nodes, made>>

Estimators == {e \in 1..Len(heap) : heap[e].cls = "Estimator"}

Objects == 1..Len(heap)

Crosses == {x \in Objects : heap[x].cls = "CrossPolyPipeline"}

\* The nodes that have been an operand.
Used == {m.left : m \in made} \cup {m.right : m \in made}

\* The user writes one formula, term by term.  Expr is the node it stands
\* for so far: the first constructed pipeline, then the latest result.
Expr == IF made = {} THEN 1 ELSE CHOOSE n \in nodes : \A m \in nodes : m <= n

\* The constructed pipeline the formula takes in next.
NextLeaf == {b \in nodes \ (Used \cup {Expr}) :
                \A c \in nodes \ (Used \cup {Expr}) : b <= c}

\* The formula has been piped into an estimator, which ends it.
Piped == \E m \in made : m.op = "or"

\* The operator algebra and fit: a formula of sums and products, piped into
\* an estimator or not, and fit calls on any node at any time.
Next ==
    \/ \E b \in NextLeaf : ~Piped /\ Add(Expr, b)
    \/ \E b \in NextLeaf : ~Piped /\ (Mul(Expr, b) \/ Mul(b, Expr))
    \/ \E e \in Estimators : ~Piped /\ Or(Expr, e)
    \/ \E n \in nodes : Fit(n)

Spec == Init /\ [][Next]_vars

\* One cross-product L1 * L2, (L1 + ... + Lk-1) * Lk or Lk * (L1 + ... + Lk-1)
\* is built, with fit, transform and fit_transform calls on any node at any
\* time.
NextTransform ==
    \/ \E b \in NextLeaf : Crosses = {} /\ Add(Expr, b)
    \/ \E b \in NextLeaf : Crosses = {} /\ (Mul(Expr, b) \/ Mul(b, Expr))
    \/ \E n \in nodes : Fit(n)
    \/ \E n \in nodes : Transform(n)
    \/ \E n \in nodes : FitTransform(n)

SpecTransform == InitTransform /\ [][NextTransform]_vars

\* ===================================================================== claims
\* The members of the union a cross-product node wraps, and their names.
Members(x) == heap[heap[x].steps[1]].steps

MemberNames(x) == heap[heap[x].steps[1]].names

\* The column count of each member's output.
MemberWidths(x) ==
    [i \in 1..Len(Members(x)) |-> Len(transform(heap, Members(x)[i]).cols)]

RECURSIVE SumSeq(_)
SumSeq(ws) == IF ws = <<>> THEN 0 ELSE Head(ws) + SumSeq(Tail(ws))

\* The first column (counted from 0) of member i in the concatenated output.
Offset(ws, i) == SumSeq(SubSeq(ws, 1, i - 1))

RECURSIVE PairSum(_)
\* The sum of ws[i] * ws[j] over all i < j.
PairSum(ws) ==
    IF Len(ws) < 2 THEN 0
    ELSE Head(ws) * SumSeq(Tail(ws)) + PairSum(Tail(ws))

Range(f) == {f[i] : i \in DOMAIN f}

\* The last transform call was made on a cross-product node and returned a
\* matrix.
CrossResult == result.ok /\ result.node \in Crosses

\* The concatenated output of the union under the node of the last call.
UnionOutput == transform(heap, heap[result.node].steps[1]).cols

RECURSIVE Reach(_, _)
\* The objects a node is made of.
Reach(h, id) ==
    {id} \cup UNION {Reach(h, h[id].steps[i]) : i \in 1..Len(h[id].steps)}

RECURSIVE Params(_, _)
\* What an estimator is, apart from its identity and its fitted state.
Params(h, id) ==
    <<h[id].cls, h[id].width,
      [i \in 1..Len(h[id].steps) |-> Params(h, h[id].steps[i])]>>

ParamsSeq(h, ids) == [i \in 1..Len(ids) |-> Params(h, ids[i])]

IsUnion(id) == heap[id].cls = "FeatureUnion"

\* C1: the output of a fitted cross-product node over n >= 2 members has as
\* many columns as the sum of w_i * w_j over all pairs i < j.
C1_WidthIsSumOverAllPairs ==
    CrossResult =>
        Len(result.cols) = PairSum(MemberWidths(result.node))

\* C2: after fit the split marks are, in transformer-list order, contiguous
\* half-open ranges that start at 0, are as long as the transformer's width
\* and end at shape_out_, which is the sum of the widths.
C2_SplitMarksTile ==
    \A x \in Crosses : heap[x].fitted =>
        LET m == heap[x].split_marks_
            ws == MemberWidths(x)
            n == Len(Members(x))
        IN /\ Len(m) = n
           /\ \A i \in 1..n : /\ m[i].name = MemberNames(x)[i]
                              /\ m[i].start = Offset(ws, i)
                              /\ m[i].stop - m[i].start = ws[i]
           /\ m[1].start = 0
           /\ \A i \in 1..(n - 1) : m[i + 1].start = m[i].stop
           /\ m[n].stop = heap[x].shape_out_
           /\ heap[x].shape_out_ = SumSeq(ws)

C2_Witness ==
    \E x \in Crosses :
        /\ heap[x].fitted
        /\ Len(heap[x].split_marks_) = 3
        /\ heap[x].split_marks_[2].start = 2
        /\ heap[x].split_marks_[3].start = 3
        /\ heap[x].shape_out_ = 5

\* C3: the node built by + or * shares no estimator object with either of
\* its operands.
C3_CompositionSharesNothing ==
    \A m \in made : m.op \in {"add", "mul"} =>
        Reach(heap, m.out) \cap (Reach(heap, m.left) \cup Reach(heap, m.right))
            = {}

\* The members an operand of * stands for: those of a union, those of the
\* union under a cross-product, or the operand itself.
FlatMembers(id) ==
    IF IsUnion(id) THEN heap[id].steps
    ELSE IF id \in Crosses THEN Members(id)
    ELSE <<id>>

\* C4: * returns one cross-product node over the flattened members of both
\* operands: unions and cross-products are expanded, anything else is one
\* member.
C4_MulFlattensBothOperands ==
    \A m \in made : m.op = "mul" =>
        /\ m.out \in Crosses
        /\ ParamsSeq(heap, Members(m.out))
             = ParamsSeq(heap, FlatMembers(m.left))
               \o ParamsSeq(heap, FlatMembers(m.right))

\* The last call returned the output of a cross-product over two members.
PairResult == CrossResult /\ Len(Members(result.node)) = 2

\* C5 as stated: A * B has wA * wB columns and column k is A's column
\* k div wB times B's column k mod wB.
C5_ColumnOrderByFirstBlock ==
    PairResult =>
        LET ws == MemberWidths(result.node)
            X == UnionOutput
        IN /\ Len(result.cols) = ws[1] * ws[2]
           /\ \A k \in 0..(ws[1] * ws[2] - 1) :
                result.cols[k + 1] =
                    <<"mul", X[(k \div ws[2]) + 1], X[ws[1] + (k % ws[2]) + 1]>>

\* C5 amended: A * B has wA * wB columns and column k is A's column
\* k mod wA times B's column k div wA.
C5_ColumnOrderBySecondBlock ==
    PairResult =>
        LET ws == MemberWidths(result.node)
            X == UnionOutput
        IN /\ Len(result.cols) = ws[1] * ws[2]
           /\ \A k \in 0..(ws[1] * ws[2] - 1) :
                result.cols[k + 1] =
                    <<"mul", X[(k % ws[1]) + 1], X[ws[1] + (k \div ws[1]) + 1]>>

C5_Witness ==
    /\ PairResult
    /\ MemberWidths(result.node) = <<2, 2>>
    /\ Len(result.cols) = 4

\* C6: fitting S = L | estimator, the estimator not being part of L, changes
\* no object of L (an unfitted L stays unfitted) and leaves S, the copy of L
\* it holds included, fitted.
C6_SequentialFitKeepsOperand ==
    [][\A m \in made :
          (m.op = "or" /\ m.right \notin Reach(heap, m.left) /\ Fit(m.out)) =>
              /\ \A x \in Reach(heap, m.left) : heap'[x] = heap[x]
              /\ transform(heap', heap'[m.out].steps[1]).ok
              /\ transform(heap', m.out).ok]_vars

C6_Witness ==
    \E u \in made, s \in made :
        /\ u.op = "add" /\ s.op = "or" /\ s.left = u.out
        /\ ~IsUnion(u.left) /\ ~IsUnion(u.right)
        /\ transform(heap, s.out).ok
        /\ \A x \in Reach(heap, u.out) : ~heap[x].fitted

\* The split marks fit computes for a union of named transformers.
Layout(h, u) ==
    LET h1 == fit(h, u) IN FitMarks(h1, h1[u].names, h1[u].steps, 0, <<>>)

\* The same for the union made directly of the listed objects.
DirectLayout(ids) ==
    LET r == make_union(heap, ids) IN Layout(r.heap, r.id)

\* C7: + on a union appends one member (a copy of the right operand) after
\* the existing members, and A + B + C over non-unions has the members
\* A, B, C in that order and the split-mark layout of the union made
\* directly of [A, B, C].
C7_RepeatedAddMatchesDirectUnion ==
    /\ \A m \in made : (m.op = "add" /\ IsUnion(m.left)) =>
          LET old == heap[m.left].steps
              new == heap[m.out].steps
          IN /\ Len(new) = Len(old) + 1
             /\ SubSeq(new, 1, Len(old)) = old
             /\ Params(heap, new[Len(new)]) = Params(heap, m.right)
    /\ \A m1 \in made, m2 \in made :
          (/\ m1.op = "add" /\ m2.op = "add" /\ m2.left = m1.out
           /\ ~IsUnion(m1.left) /\ ~IsUnion(m1.right) /\ ~IsUnion(m2.right)) =>
              /\ IsUnion(m2.out)
              /\ ParamsSeq(heap, heap[m2.out].steps)
                   = ParamsSeq(heap, <<m1.left, m1.right, m2.right>>)
              /\ Layout(heap, m2.out)
                   = DirectLayout(<<m1.left, m1.right, m2.right>>)

C7_Witness ==
    \E m1 \in made, m2 \in made :
        /\ m1.op = "add" /\ m2.op = "add" /\ m2.left = m1.out
        /\ ~IsUnion(m1.left) /\ ~IsUnion(m1.right) /\ ~IsUnion(m2.right)
        /\ heap[m1.left].width = 1 /\ heap[m1.right].width = 2
        /\ Layout(heap, m2.out).shape_out_ = 4

\* C8: transform returns a matrix for a cross-product node only if the node
\* has been fitted; on an unfitted node it ends in an error.
C8_UnfittedTransformFails ==
    (result.node \in Crosses /\ ~heap[result.node].fitted) => ~result.ok

C8_Witness ==
    /\ result.node \in Crosses
    /\ ~heap[result.node].fitted
    /\ ~result.ok
    /\ \A i \in 1..Len(Members(result.node)) :
          transform(heap, Members(result.node)[i]).ok

\* The columns a block times a block gives, in any order.
Products(B1, B2) == {<<"mul", a, b>> : a \in Range(B1), b \in Range(B2)}

Block(X, ws, i) == SubSeq(X, Offset(ws, i) + 1, Offset(ws, i) + ws[i])

\* C9: the output of a cross-product node over n >= 2 members holds exactly
\* the products of the blocks of the last pair, members n-1 and n, so it is
\* w_(n-1) * w_n columns wide and no other pair contributes.
C9_OnlyLastPairSurvives ==
    CrossResult =>
        LET ws == MemberWidths(result.node)
            n == Len(ws)
            X == UnionOutput
        IN /\ n >= 2
           /\ Len(result.cols) = ws[n - 1] * ws[n]
           /\ Range(result.cols)
                = Products(Block(X, ws, n - 1), Block(X, ws, n))

C9_Witness ==
    /\ CrossResult
    /\ Len(Members(result.node)) = 3
    /\ MemberWidths(result.node) = <<2, 1, 2>>
    /\ Len(result.cols) = 2

\* The fitted attributes of an object.
Attrs(h, x) == <<h[x].fitted, h[x].split_marks_, h[x].shape_out_>>

\* C10: a fitted cross-product node stays fitted; transform leaves the
\* fitted attributes alone and succeeds on a fitted node; the attributes
\* change in fit calls only.
C10_FittedIsTerminal ==
    [][\A x \in Crosses :
          /\ heap[x].fitted => heap'[x].fitted
          /\ (\E n \in nodes : Transform(n)) => Attrs(heap', x) = Attrs(heap, x)
          /\ (heap[x].fitted /\ x \in nodes /\ Transform(x)) => result'.ok
          /\ Attrs(heap', x) # Attrs(heap, x) =>
                \E n \in nodes : Fit(n) \/ FitTransform(n)]_vars

C10_Witness ==
    /\ CrossResult
    /\ heap[result.node].fitted
    /\ heap[result.node].shape_out_ = 3
    /\ Len(result.cols) = 2

====
